---- MODULE Spec2Model ----
(***************************************************************************)
(* Calendar front end (Jolteer/Calender).                                  *)
(*                                                                         *)
(* The repository ships two variants of the Calendar class: the            *)
(* API-backed one (src/unnamed/part_000, lines 241-1300) and the           *)
(* localStorage-backed one (src/js/script.js, lines 5-623).  The variable  *)
(* `variant` records which of the two is loaded in the page.               *)
(*                                                                         *)
(* A JavaScript Date is modelled by its local calendar fields              *)
(* [year, month (0..11), date, hours]; the time zone of the browser is a   *)
(* fixed whole-hour offset tzOffset (local time = UTC + tzOffset).         *)
(***************************************************************************)
EXTENDS Integers, Sequences, FiniteSets, TLC

VARIABLES
    variant,      \* "api" (part_000) or "local" (js/script.js)
    tzOffset,     \* hours east of UTC of the browser's local time zone
    currentDate,  \* this.currentDate
    currentView,  \* this.currentView
    events,       \* this.events
    today,        \* the value of `new Date()` read by the last rendering
    lastOp,       \* the handler that ran last, with its argument
    bucketsOut,   \* the value returned by the last groupEventsByDate() call
    engine,       \* how the browser's Date parses a day past the end of its month
    form,         \* the values of the inputs of the event form (eventData)
    outcome,      \* how the last validateEventData(eventData) call ended
    calls,        \* the saveEvent() calls suspended at an await, oldest first
    fetchResult,  \* how the fetch attempt that settled last was handled
    modalOpen,    \* whether the event modal is shown
    toast,        \* the messages shown by the handler step that ran last
    focused,      \* the form element that was given the focus last
    server,       \* the stored collection (the service behind the API, or localStorage)
    nextId        \* the source of new ids: the counter of the storage service, or the
                  \* value Date.now() returned last

\* The state of the event form and of the requests it starts.
formVars == <<engine, form, outcome, calls, fetchResult, modalOpen, toast, focused>>

\* The state of the storage.
serverVars == <<server, nextId>>

vars == <<variant, tzOffset, currentDate, currentView, events, today,
          lastOp, bucketsOut, formVars, serverVars>>

----------------------------------------------------------------------------
(* Program constants and model bounds *)

DAYS_IN_WEEK == 7
MINUTES_PER_HOUR == 60
PAD_LENGTH == 2

BaseYear == 2015
NumYears == 2
MaxEvents == 3
MaxInFlight == 1
MaxPending == 1
MaxRacing == 2
MaxStored == 3
MaxMillis == 2

Years == BaseYear .. (BaseYear + NumYears - 1)

TZOffsets == {-5, 0, 2}

----------------------------------------------------------------------------
(* JavaScript Date semantics used by the program *)

\* Days since 1970-01-01 of the civil day (y, m, d); m in 0..11, d any integer
\* (a date outside the month counts on linearly, as ECMAScript MakeDay does).
DaysFromCivil(y, m, d) ==
    LET yy  == IF m <= 1 THEN y - 1 ELSE y
        era == yy \div 400
        yoe == yy - era * 400
        mp  == IF m > 1 THEN m - 2 ELSE m + 10
        doy == (153 * mp + 2) \div 5 + d - 1
        doe == yoe * 365 + yoe \div 4 - yoe \div 100 + doy
    IN  era * 146097 + doe - 719468

\* The civil day [year, month (0..11), date] of a day count.
CivilFromDays(z) ==
    LET zz  == z + 719468
        era == zz \div 146097
        doe == zz - era * 146097
        yoe == (doe - doe \div 1460 + doe \div 36524 - doe \div 146096) \div 365
        doy == doe - (365 * yoe + yoe \div 4 - yoe \div 100)
        mp  == (5 * doy + 2) \div 153
        d   == doy - (153 * mp + 2) \div 5 + 1
        m   == IF mp < 10 THEN mp + 2 ELSE mp - 10
        y   == yoe + era * 400 + (IF m <= 1 THEN 1 ELSE 0)
    IN  [year |-> y, month |-> m, date |-> d]

\* new Date(year, month, date) with hours h: month and date out of range roll over.
NewDate(year, month, date, h) ==
    LET ym == year + month \div 12
        mn == month % 12
        c  == CivilFromDays(DaysFromCivil(ym, mn, 1) + date - 1)
    IN  [year |-> c.year, month |-> c.month, date |-> c.date, hours |-> h]

\* Date.prototype.getDay: 0 = Sunday .. 6 = Saturday.
getDay(d) == (DaysFromCivil(d.year, d.month, d.date) + 4) % 7

\* Mutant of setMonth: the month wraps around without carrying into the year.
setMonthNoCarry(d, m) == [d EXCEPT !.month = m % 12]

\* Date.prototype.setMonth(m): keeps the day of month, then rolls over.
setMonth(d, m) == NewDate(d.year, m, d.date, d.hours)

\* Mutant of setDate: a day outside the month is clamped into the month.
setDateClamped(d, n) ==
    LET last == NewDate(d.year, d.month + 1, 0, 0).date
    IN  [d EXCEPT !.date = IF n < 1 THEN 1 ELSE IF n > last THEN last ELSE n]

\* Date.prototype.setDate(n): keeps year and month, then rolls over.
setDate(d, n) == NewDate(d.year, d.month, n, d.hours)

\* Date.prototype.getTime compared for equality: same instant.
SameInstant(a, b) == a = b

\* String.prototype.padStart(PAD_LENGTH, '0')
padStart(s) == IF Len(s) >= PAD_LENGTH THEN s ELSE "0" \o s

\* date.toISOString().split('T')[0]: the calendar day in UTC.
toISODate(d) ==
    LET shift == (d.hours - tzOffset) \div 24
        c     == CivilFromDays(DaysFromCivil(d.year, d.month, d.date) + shift)
    IN  ToString(c.year) \o "-" \o padStart(ToString(c.month + 1)) \o "-"
            \o padStart(ToString(c.date))

----------------------------------------------------------------------------
(* Calendar: formatting and month data *)

formatDateString(year, month, day) ==
    ToString(year) \o "-" \o padStart(ToString(month + 1)) \o "-"
        \o padStart(ToString(day))

\* Mutant of getMonthData: lastDay built from `month` instead of `month + 1`.
getMonthDataShifted(cur, now) ==
    LET year  == cur.year
        month == cur.month
        firstDay    == NewDate(year, month, 1, 0)
        lastDay     == NewDate(year, month, 0, 0)
        prevLastDay == NewDate(year, month, 0, 0)
    IN  [year |-> year, month |-> month,
         firstDayOfWeek |-> getDay(firstDay),
         lastDate |-> lastDay.date,
         prevLastDate |-> prevLastDay.date,
         isCurrentMonth |-> (now.month = month /\ now.year = year),
         todayDate |-> now.date]

\* getMonthData() for this.currentDate = cur and new Date() = now.
getMonthData(cur, now) ==
    LET year  == cur.year
        month == cur.month
        firstDay    == NewDate(year, month, 1, 0)
        lastDay     == NewDate(year, month + 1, 0, 0)
        prevLastDay == NewDate(year, month, 0, 0)
    IN  [year |-> year, month |-> month,
         firstDayOfWeek |-> getDay(firstDay),
         lastDate |-> lastDay.date,
         prevLastDate |-> prevLastDay.date,
         isCurrentMonth |-> (now.month = month /\ now.year = year),
         todayDate |-> now.date]

\* Mutant of calculateActualMonthYear: the year is not adjusted at the wrap.
calculateActualMonthYearNoCarry(type, month, year) ==
    IF type = "prev"
    THEN [actualMonth |-> IF month = 0 THEN 11 ELSE month - 1, actualYear |-> year]
    ELSE IF type = "next"
    THEN [actualMonth |-> IF month = 11 THEN 0 ELSE month + 1, actualYear |-> year]
    ELSE [actualMonth |-> month, actualYear |-> year]

calculateActualMonthYear(type, month, year) ==
    IF type = "prev"
    THEN [actualMonth |-> IF month = 0 THEN 11 ELSE month - 1,
          actualYear  |-> IF month = 0 THEN year - 1 ELSE year]
    ELSE IF type = "next"
    THEN [actualMonth |-> IF month = 11 THEN 0 ELSE month + 1,
          actualYear  |-> IF month = 11 THEN year + 1 ELSE year]
    ELSE [actualMonth |-> month, actualYear |-> year]

getCellClasses(type, isToday) ==
    IF type # "current" THEN "other-month"
    ELSE IF isToday THEN "today" ELSE ""

\* createMonthCell keying every cell in the viewed month.
createMonthCellViewedMonth(type, day, year, month, isToday) ==
    [type    |-> type,
     day     |-> day,
     dateStr |-> formatDateString(year, month, day),
     classes |-> getCellClasses(type, isToday),
     events  |-> <<>>]

\* One <td> of the month table: its class, data-date and day number.
createMonthCell(type, day, year, month, isToday) ==
    LET a == calculateActualMonthYear(type, month, year)
    IN  [type    |-> type,
         day     |-> day,
         dateStr |-> formatDateString(a.actualYear, a.actualMonth, day),
         classes |-> getCellClasses(type, isToday),
         events  |-> <<>>]

\* The double loop of renderMonthlyView, cell by cell: loop[k] is the state of
\* the loop (its two counters and the html built so far) after k cells.
MonthLoop(md) ==
    LET totalCells == md.firstDayOfWeek + md.lastDate
        weekRows   == (totalCells + DAYS_IN_WEEK - 1) \div DAYS_IN_WEEK
        loop[k \in 0..(weekRows * DAYS_IN_WEEK)] ==
            IF k = 0
            THEN [currentMonthDay |-> 1, nextMonthDay |-> 1, html |-> <<>>]
            ELSE LET s         == loop[k - 1]
                     cellIndex == k - 1
                 IN  IF cellIndex < md.firstDayOfWeek
                     THEN [s EXCEPT !.html = Append(@,
                              createMonthCell("prev",
                                  md.prevLastDate - md.firstDayOfWeek + cellIndex + 1,
                                  md.year, md.month, FALSE))]
                     ELSE IF s.currentMonthDay <= md.lastDate
                     THEN [s EXCEPT
                              !.html = Append(@,
                                  createMonthCell("current", s.currentMonthDay,
                                      md.year, md.month,
                                      md.isCurrentMonth
                                          /\ s.currentMonthDay = md.todayDate)),
                              !.currentMonthDay = @ + 1]
                     ELSE [s EXCEPT
                              !.html = Append(@,
                                  createMonthCell("next", s.nextMonthDay,
                                      md.year, md.month, FALSE)),
                              !.nextMonthDay = @ + 1]
    IN  loop[weekRows * DAYS_IN_WEEK].html

----------------------------------------------------------------------------
(* Calendar: grouping of events *)

\* Number(s) for a string of decimal digits.
DigitValue(c) ==
    CASE c = "0" -> 0 [] c = "1" -> 1 [] c = "2" -> 2 [] c = "3" -> 3
      [] c = "4" -> 4 [] c = "5" -> 5 [] c = "6" -> 6 [] c = "7" -> 7
      [] c = "8" -> 8 [] c = "9" -> 9

RECURSIVE Number(_)
Number(s) ==
    IF Len(s) = 0 THEN 0
    ELSE 10 * Number(SubSeq(s, 1, Len(s) - 1)) + DigitValue(SubSeq(s, Len(s), Len(s)))

\* s.split(':') for a string holding one colon.
split(s) ==
    LET i == CHOOSE k \in 1..Len(s) : SubSeq(s, k, k) = ":"
    IN  <<SubSeq(s, 1, i - 1), SubSeq(s, i + 1, Len(s))>>

\* The comparator of groupEventsByDate: difference of the start minutes.
compareStart(a, b) ==
    LET ta == split(a.startTime)
        tb == split(b.startTime)
    IN  (Number(ta[1]) * MINUTES_PER_HOUR + Number(ta[2]))
          - (Number(tb[1]) * MINUTES_PER_HOUR + Number(tb[2]))

\* Mutant of insertSorted: an element overtakes the elements it ties with.
RECURSIVE insertSortedUnstable(_, _)
insertSortedUnstable(sorted, e) ==
    IF sorted = <<>> THEN <<e>>
    ELSE IF compareStart(sorted[Len(sorted)], e) < 0 THEN Append(sorted, e)
    ELSE Append(insertSortedUnstable(SubSeq(sorted, 1, Len(sorted) - 1), e),
                sorted[Len(sorted)])

\* Array.prototype.sort with that comparator (stable, ECMAScript 2019):
\* each element goes behind every element that does not compare greater.
RECURSIVE insertSorted(_, _)
insertSorted(sorted, e) ==
    IF sorted = <<>> THEN <<e>>
    ELSE IF compareStart(sorted[Len(sorted)], e) <= 0 THEN Append(sorted, e)
    ELSE Append(insertSorted(SubSeq(sorted, 1, Len(sorted) - 1), e),
                sorted[Len(sorted)])

RECURSIVE sortByStart(_)
sortByStart(list) ==
    IF list = <<>> THEN <<>>
    ELSE insertSorted(sortByStart(SubSeq(list, 1, Len(list) - 1)), list[Len(list)])

\* Mutant of groupLoop: the bucket is set to [] without the has() test.
RECURSIVE groupLoopReset(_, _)
groupLoopReset(evs, map) ==
    IF evs = <<>> THEN map
    ELSE LET event == Head(evs)
             has   == \E i \in 1..Len(map) : map[i].date = event.date
             map1  == IF has
                      THEN [i \in 1..Len(map) |->
                              IF map[i].date = event.date
                              THEN [map[i] EXCEPT !.list = <<>>] ELSE map[i]]
                      ELSE Append(map, [date |-> event.date, list |-> <<>>])
             map2  == [i \in 1..Len(map1) |->
                          IF map1[i].date = event.date
                          THEN [map1[i] EXCEPT !.list = Append(@, event)]
                          ELSE map1[i]]
         IN  groupLoopReset(Tail(evs), map2)

\* First loop of groupEventsByDate: the Map, as its entries in insertion order.
RECURSIVE groupLoop(_, _)
groupLoop(evs, map) ==
    IF evs = <<>> THEN map
    ELSE LET event == Head(evs)
             has   == \E i \in 1..Len(map) : map[i].date = event.date
             map1  == IF has THEN map
                      ELSE Append(map, [date |-> event.date, list |-> <<>>])
             map2  == [i \in 1..Len(map1) |->
                          IF map1[i].date = event.date
                          THEN [map1[i] EXCEPT !.list = Append(@, event)]
                          ELSE map1[i]]
         IN  groupLoop(Tail(evs), map2)

\* groupEventsByDate(): entries [date, list], each list sorted by start time.
groupEventsByDate(evs) ==
    LET map == groupLoop(evs, <<>>)
    IN  [i \in 1..Len(map) |-> [map[i] EXCEPT !.list = sortByStart(@)]]

\* groupEventsByDate sorting this.events itself rather than the buckets.
eventsAfterGroupEventsByDateSorted(evs) == sortByStart(evs)

\* this.events after groupEventsByDate(): the loop reads the collection and
\* pushes its events into arrays of its own, and only those are sorted.
eventsAfterGroupEventsByDate(evs) == evs

\* eventsByDate[date], or the empty list when there is no such key.
bucketOf(grouped, date) ==
    IF \E i \in 1..Len(grouped) : grouped[i].date = date
    THEN grouped[CHOOSE i \in 1..Len(grouped) : grouped[i].date = date].list
    ELSE <<>>

----------------------------------------------------------------------------
(* Calendar: rendering *)

\* The ids of a list of events, in order (one badge per event).
Ids(list) == [i \in 1..Len(list) |-> list[i].id]

\* document.querySelector('td[data-date="..."]'): the first cell with that key.
IsFirstWithKey(cs, i) == \A j \in 1..(i - 1) : cs[j].dateStr # cs[i].dateStr

\* renderEventsInMonthlyView: part_000 fills each cell from its sorted bucket,
\* js/script.js appends the events to their cells in collection order.
renderEventsInMonthlyView(cs, evs) ==
    LET grouped == groupEventsByDate(evs)
        shown(date) ==
            IF variant = "api" THEN bucketOf(grouped, date)
            ELSE SelectSeq(evs, LAMBDA e : e.date = date)
    IN  [i \in 1..Len(cs) |->
            IF IsFirstWithKey(cs, i)
            THEN [cs[i] EXCEPT !.events = Ids(shown(cs[i].dateStr))]
            ELSE cs[i]]

\* renderEventsInWeeklyView: each cell shows its sorted bucket (both variants).
renderEventsInWeeklyView(cs, evs) ==
    LET grouped == groupEventsByDate(evs)
    IN  [i \in 1..Len(cs) |->
            IF IsFirstWithKey(cs, i)
            THEN [cs[i] EXCEPT !.events = Ids(bucketOf(grouped, cs[i].dateStr))]
            ELSE cs[i]]

\* renderMonthlyView() with this.currentDate = cur and new Date() = now.
renderMonthlyView(cur, now, evs) ==
    renderEventsInMonthlyView(MonthLoop(getMonthData(cur, now)), evs)

\* normalizeDate(date): date.setHours(0, 0, 0, 0).
normalizeDate(d) == [d EXCEPT !.hours = 0]

\* getWeekStart(date): part_000 normalizes to midnight, js/script.js does not.
getWeekStart(date) ==
    LET d    == date
        day  == getDay(d)
        diff == d.date - day
    IN  IF variant = "api" THEN normalizeDate(setDate(d, diff))
        ELSE setDate(d, diff)

\* generateWeeklyGrid(weekStart, today): the seven <td> of the week table.
generateWeeklyGrid(weekStart, today0) ==
    [k \in 1..DAYS_IN_WEEK |->
        LET currentDay == setDate(weekStart, weekStart.date + (k - 1))
            isToday    == SameInstant(currentDay, today0)
        IN  [type    |-> "week",
             day     |-> currentDay.date,
             dateStr |-> toISODate(currentDay),
             classes |-> IF isToday THEN "weekly-today" ELSE "",
             events  |-> <<>>]]

\* renderWeeklyView() with this.currentDate = cur and new Date() = now.
renderWeeklyView(cur, now, evs) ==
    renderEventsInWeeklyView(
        generateWeeklyGrid(getWeekStart(cur), normalizeDate(now)), evs)

\* refreshCurrentView()
refreshCurrentView(view, cur, now, evs) ==
    IF view = "month" THEN renderMonthlyView(cur, now, evs)
    ELSE renderWeeklyView(cur, now, evs)

----------------------------------------------------------------------------------------------------------------------------------------
(* The environment: wall clock and stored events *)

----------------------------------------------------------------------------
(* Validation of the event form (API-backed variant) *)

MAX_RETRIES == 3
MaxTitleLength == 100
MaxDescriptionLength == 500

\* Date-only strings whose day is past the end of the month ("2024-02-30"):
\* a "lenient" engine carries the day into the next month, a "strict" engine
\* yields an invalid Date.  Both occur among current browsers.
Engines == {"lenient", "strict"}

charAt(s, i) == SubSeq(s, i, i)

\* \d
IsDigit(c) == c \in {"0", "1", "2", "3", "4", "5", "6", "7", "8", "9"}

\* [0-9A-F] under the i flag
IsHexDigit(c) ==
    IsDigit(c) \/ c \in {"A", "B", "C", "D", "E", "F", "a", "b", "c", "d", "e", "f"}

IsWhiteSpace(c) == c \in {" ", "\t"}

\* String.prototype.trim
RECURSIVE trim(_)
trim(s) ==
    IF Len(s) = 0 THEN s
    ELSE IF IsWhiteSpace(charAt(s, 1)) THEN trim(SubSeq(s, 2, Len(s)))
    ELSE IF IsWhiteSpace(charAt(s, Len(s))) THEN trim(SubSeq(s, 1, Len(s) - 1))
    ELSE s

\* /^\d{4}-\d{2}-\d{2}$/.test(s)
dateRegexTest(s) ==
    /\ Len(s) = 10
    /\ \A i \in {1, 2, 3, 4, 6, 7, 9, 10} : IsDigit(charAt(s, i))
    /\ charAt(s, 5) = "-"
    /\ charAt(s, 8) = "-"

\* /^\d{2}:\d{2}$/.test(s)
timeRegexTest(s) ==
    /\ Len(s) = 5
    /\ \A i \in {1, 2, 4, 5} : IsDigit(charAt(s, i))
    /\ charAt(s, 3) = ":"

\* s.match(/^#[0-9A-F]{6}$/i) is not null
colorRegexMatch(s) ==
    /\ Len(s) = 7
    /\ charAt(s, 1) = "#"
    /\ \A i \in 2..7 : IsHexDigit(charAt(s, i))

\* isNaN(new Date(s).getTime()) for a string of the shape YYYY-MM-DD.
dateIsNaN(s) ==
    LET y == Number(SubSeq(s, 1, 4))
        m == Number(SubSeq(s, 6, 7))
        d == Number(SubSeq(s, 9, 10))
    IN  \/ m \notin 1..12
        \/ d \notin 1..31
        \/ engine = "strict" /\ NewDate(y, m - 1, d, 0).month # m - 1

\* What a call of validateEventData ends with.
Valid == [ok |-> TRUE, message |-> "", field |-> ""]
ValidationError(message, field) == [ok |-> FALSE, message |-> message, field |-> field]

\* startHour * MINUTES_PER_HOUR + startMin for a string of the shape HH:MM
toMinutes(t) ==
    LET parts == split(t)
    IN  Number(parts[1]) * MINUTES_PER_HOUR + Number(parts[2])

\* === TITLE VALIDATION ===, requiring the title without trimming it
validateTitleUntrimmed(data) ==
    IF data.title = ""
    THEN ValidationError("Event title is required", "title")
    ELSE IF Len(trim(data.title)) > MaxTitleLength
    THEN ValidationError("Event title must be 100 characters or less", "title")
    ELSE Valid

\* === TITLE VALIDATION ===
validateTitle(data) ==
    IF Len(trim(data.title)) = 0
    THEN ValidationError("Event title is required", "title")
    ELSE IF Len(trim(data.title)) > MaxTitleLength
    THEN ValidationError("Event title must be 100 characters or less", "title")
    ELSE Valid

\* === DATE VALIDATION ===
validateDate(data) ==
    IF data.date = ""
    THEN ValidationError("Event date is required", "date")
    ELSE IF ~dateRegexTest(data.date)
    THEN ValidationError("Invalid date format. Please use YYYY-MM-DD", "date")
    ELSE IF dateIsNaN(data.date)
    THEN ValidationError("Invalid date", "date")
    ELSE Valid

\* === TIME VALIDATION ===
validateTimes(data) ==
    IF data.startTime = ""
    THEN ValidationError("Start time is required", "startTime")
    ELSE IF data.endTime = ""
    THEN ValidationError("End time is required", "endTime")
    ELSE IF ~timeRegexTest(data.startTime)
    THEN ValidationError("Invalid start time format. Please use HH:MM", "startTime")
    ELSE IF ~timeRegexTest(data.endTime)
    THEN ValidationError("Invalid end time format. Please use HH:MM", "endTime")
    ELSE Valid

\* === TIME LOGIC VALIDATION ===, with < in place of <=
validateTimeLogicNonStrict(data) ==
    IF toMinutes(data.endTime) < toMinutes(data.startTime)
    THEN ValidationError("End time must be after start time", "endTime")
    ELSE Valid

\* === TIME LOGIC VALIDATION ===
validateTimeLogic(data) ==
    IF toMinutes(data.endTime) <= toMinutes(data.startTime)
    THEN ValidationError("End time must be after start time", "endTime")
    ELSE Valid

\* === DESCRIPTION VALIDATION ===
validateDescription(data) ==
    IF data.description # "" /\ Len(data.description) > MaxDescriptionLength
    THEN ValidationError("Description must be 500 characters or less", "description")
    ELSE Valid

\* === COLOR VALIDATION ===
validateColor(data) ==
    IF data.color = "" \/ ~colorRegexMatch(data.color)
    THEN ValidationError("Invalid color format. Please use hex color code", "color")
    ELSE Valid

\* validateEventData with the colour checked before the description.
validateEventDataColorFirst(data) ==
    LET title == validateTitle(data)
        date  == validateDate(data)
        times == validateTimes(data)
        logic == validateTimeLogic(data)
        descr == validateDescription(data)
        color == validateColor(data)
    IN  IF ~title.ok THEN title
        ELSE IF ~date.ok THEN date
        ELSE IF ~times.ok THEN times
        ELSE IF ~logic.ok THEN logic
        ELSE IF ~color.ok THEN color
        ELSE descr

\* validateEventData(data): the sections in the order of the code; the first
\* throw ends the call.
validateEventData(data) ==
    LET title == validateTitle(data)
        date  == validateDate(data)
        times == validateTimes(data)
        logic == validateTimeLogic(data)
        descr == validateDescription(data)
        color == validateColor(data)
    IN  IF ~title.ok THEN title
        ELSE IF ~date.ok THEN date
        ELSE IF ~times.ok THEN times
        ELSE IF ~logic.ok THEN logic
        ELSE IF ~descr.ok THEN descr
        ELSE color

\* A validateEventData that trims the title of its argument in place.
dataAfterValidateTrimmed(data) == [data EXCEPT !.title = trim(@)]

\* The object passed to validateEventData as the call leaves it: the method
\* only reads its fields.
dataAfterValidate(data) == data

\* The form as eventForm.reset() leaves it (openEventModal), and the initial
\* values of the other fields of the form state.
DEFAULT_EVENT_COLOR == "#0EA5E9"
EmptyForm ==
    [id |-> "", title |-> "", date |-> "", startTime |-> "", endTime |-> "",
     description |-> "", color |-> DEFAULT_EVENT_COLOR]
NotValidated == [ok |-> FALSE, message |-> "", field |-> "none"]
NoToast == <<>>
NoFetch == [call |-> 0, response |-> [type |-> "none", status |-> 0], kind |-> "none",
            error |-> "", status |-> 0, attempts |-> 0]

\* Values `new Date()` may return.
ClockValues ==
    { NewDate(BaseYear, 11, 31, 23),
      NewDate(BaseYear + 1, 1, 29, 9) }

\* The clock does not run backwards: the values `new Date()` may return after
\* it returned `last`.
ClockFrom(last) ==
    { now \in ClockValues :
        DaysFromCivil(now.year, now.month, now.date) * 24 + now.hours
          >= DaysFromCivil(last.year, last.month, last.date) * 24 + last.hours }

\* A stored collection: two events on New Year's Eve, one on New Year's Day.
StoredEvents ==
    << [id |-> 1, date |-> formatDateString(BaseYear, 11, 31), startTime |-> "10:00"],
       [id |-> 2, date |-> formatDateString(BaseYear + 1, 0, 1), startTime |-> "09:30"],
       [id |-> 3, date |-> formatDateString(BaseYear, 11, 31), startTime |-> "09:00"] >>

----------------------------------------------------------------------------
(* Handlers of the view.  Every handler ends by rendering the visible table  *)
(* synchronously (renderMonthlyView / renderWeeklyView), reading the clock   *)
(* once; the table is therefore the rendering of the fields below, and      *)
(* `cells` denotes it.                                                       *)

\* The <td> cells of the visible calendar table, row-major.
cells == refreshCurrentView(currentView, currentDate, today, events)

Init ==
    /\ variant \in {"api", "local"}
    /\ tzOffset \in TZOffsets
    /\ today \in ClockValues
    /\ currentDate = today
    /\ currentView = "month"
    /\ events = StoredEvents
    /\ lastOp = [op |-> "init", arg |-> ""]
    /\ bucketsOut = <<>>
    /\ engine = "lenient"
    /\ form = EmptyForm
    /\ outcome = NotValidated
    /\ calls = <<>>
    /\ fetchResult = NoFetch
    /\ modalOpen = FALSE
    /\ toast = NoToast
    /\ focused = ""
    /\ server = events
    /\ nextId = 1

\* navigate(direction)
Navigate(direction) ==
    LET delta == IF direction = "prev" THEN -1 ELSE 1
        moved == IF currentView = "month"
                 THEN setMonth(currentDate, currentDate.month + delta)
                 ELSE setDate(currentDate, currentDate.date + delta * DAYS_IN_WEEK)
    IN  /\ moved.year \in Years
        /\ currentDate' = moved
        /\ today' \in ClockFrom(today)
        /\ lastOp' = [op |-> "navigate", arg |-> direction]
        /\ events' = eventsAfterGroupEventsByDate(events)
        /\ UNCHANGED <<variant, tzOffset, currentView, bucketsOut, formVars, serverVars>>

\* switchView(view)
SwitchView(view) ==
    /\ currentView' = view
    /\ today' \in ClockFrom(today)
    /\ lastOp' = [op |-> "switchView", arg |-> view]
    /\ events' = eventsAfterGroupEventsByDate(events)
    /\ UNCHANGED <<variant, tzOffset, currentDate, bucketsOut, formVars, serverVars>>

\* goToToday()
GoToToday ==
    /\ \E now \in ClockFrom(today) :
          /\ currentDate' = now
          /\ today' = now
    /\ lastOp' = [op |-> "goToToday", arg |-> ""]
    /\ events' = eventsAfterGroupEventsByDate(events)
    /\ UNCHANGED <<variant, tzOffset, currentView, bucketsOut, formVars, serverVars>>

Next ==
    \/ Navigate("prev")
    \/ Navigate("next")
    \/ SwitchView("month")
    \/ SwitchView("week")
    \/ GoToToday

Spec == Init /\ [][Next]_vars

\* The page left in month view, browsed month by month.
NextMonths ==
    \/ Navigate("prev")
    \/ Navigate("next")

SpecMonths == Init /\ [][NextMonths]_vars

----------------------------------------------------------------------------
(* groupEventsByDate as a function of the collection *)

EventDates == { formatDateString(BaseYear, 11, 15), formatDateString(BaseYear, 11, 16) }
StartTimes == { "09:00", "09:30", "10:00" }

\* Collections of at most MaxEvents events; ids are the positions.
EventCollections ==
    UNION { { [i \in 1..n |-> [id |-> i, date |-> f[i][1], startTime |-> f[i][2]]] :
                f \in [1..n -> EventDates \X StartTimes] } : n \in 0..MaxEvents }

InitGroup ==
    /\ variant \in {"api", "local"}
    /\ tzOffset = 0
    /\ today = NewDate(BaseYear, 11, 15, 9)
    /\ currentDate = today
    /\ currentView = "month"
    /\ events \in EventCollections
    /\ lastOp = [op |-> "init", arg |-> ""]
    /\ bucketsOut = <<>>
    /\ engine = "lenient"
    /\ form = EmptyForm
    /\ outcome = NotValidated
    /\ calls = <<>>
    /\ fetchResult = NoFetch
    /\ modalOpen = FALSE
    /\ toast = NoToast
    /\ focused = ""
    /\ server = events
    /\ nextId = 1

\* A call of groupEventsByDate() on this.events.
GroupEvents ==
    /\ lastOp.op = "init"
    /\ bucketsOut' = groupEventsByDate(events)
    /\ lastOp' = [op |-> "groupEventsByDate", arg |-> ""]
    /\ events' = eventsAfterGroupEventsByDate(events)
    /\ UNCHANGED <<variant, tzOffset, currentDate, currentView, today, formVars, serverVars>>

NextGroup == GroupEvents

SpecGroup == InitGroup /\ [][NextGroup]_vars

----------------------------------------------------------------------------
(* validateEventData as a function of the values typed into the form *)

RECURSIVE Repeat(_, _)
Repeat(c, n) ==
    IF n = 0 THEN ""
    ELSE IF n % 2 = 1 THEN Repeat(c, n - 1) \o c
    ELSE LET half == Repeat(c, n \div 2) IN half \o half

DraftTitles ==
    { "", "  \t", " Standup ",
      " " \o Repeat("x", MaxTitleLength) \o " ",
      Repeat("x", MaxTitleLength + 1) }
DraftDates ==
    { "", "12/15/2024", "2024-13-01", "2024-00-10", "2024-02-30", "2023-02-29",
      "2024-04-31", "2024-02-29", "2025-11-30" }
DraftStartTimes == { "", "9:00am", "09:00", "10:00", "25:00" }
DraftEndTimes == { "", "invalid", "08:59", "09:00", "09:01", "09:60", "24:00" }
DraftDescriptions ==
    { "", Repeat("d", MaxDescriptionLength), Repeat("d", MaxDescriptionLength + 1) }
DraftColors == { "", "blue", "#12345", "#GGGGGG", "#0EA5E9", "#0ea5e9" }

Drafts ==
    { [id |-> "", title |-> t, date |-> d, startTime |-> a, endTime |-> b,
       description |-> x, color |-> c] :
        t \in DraftTitles, d \in DraftDates, a \in DraftStartTimes,
        b \in DraftEndTimes, x \in DraftDescriptions, c \in DraftColors }

InitValidate ==
    /\ variant = "api"
    /\ tzOffset = 0
    /\ today = NewDate(BaseYear, 11, 15, 9)
    /\ currentDate = today
    /\ currentView = "month"
    /\ events = <<>>
    /\ lastOp = [op |-> "init", arg |-> ""]
    /\ bucketsOut = <<>>
    /\ engine \in Engines
    /\ form \in Drafts
    /\ outcome = NotValidated
    /\ calls = <<>>
    /\ fetchResult = NoFetch
    /\ modalOpen = TRUE
    /\ toast = NoToast
    /\ focused = ""
    /\ server = events
    /\ nextId = 1

\* A call validateEventData(eventData) on the values of the form.
Validate ==
    /\ outcome' = validateEventData(form)
    /\ form' = dataAfterValidate(form)
    /\ lastOp' = [op |-> "validateEventData",
                  arg |-> IF lastOp.op = "validateEventData" THEN "again" ELSE "first"]
    /\ UNCHANGED <<variant, tzOffset, currentDate, currentView, events, today,
                   bucketsOut, engine, calls, fetchResult, modalOpen, toast, focused,
                   serverVars>>

NextValidate == Validate

SpecValidate == InitValidate /\ [][NextValidate]_vars

----------------------------------------------------------------------------
(* saveEvent of the API-backed variant and the requests it awaits *)

\* What the network may answer to one fetch(url, options).
Statuses == {200, 201, 400, 404, 422, 500, 503}
Responses ==
    { [type |-> "network", status |-> 0] }
      \cup { [type |-> "http", status |-> st] : st \in Statuses }

\* fetchWithRetry with every failed attempt retried.
fetchWithRetryAnyError(retries, response) ==
    IF response.type = "http" /\ response.status \in 200..299
    THEN [kind |-> "returned", error |-> "", status |-> response.status]
    ELSE IF retries > 0
    THEN [kind |-> "retry", error |-> "", status |-> response.status]
    ELSE [kind |-> "thrown",
          error |-> IF response.type = "network" THEN "TypeError" ELSE "APIError",
          status |-> response.status]

\* One pass through fetchWithRetry(url, options, retries) once fetch settled
\* with `response`: the response is returned, the call retries (it calls
\* itself with retries - 1 after RETRY_DELAY), or the error is thrown.
fetchWithRetry(retries, response) ==
    LET ok == response.type = "http" /\ response.status \in 200..299
        shouldRetry ==
            /\ retries > 0
            /\ \/ response.type = "network"
               \/ response.type = "http" /\ response.status >= 500
    IN  IF ok THEN [kind |-> "returned", error |-> "", status |-> response.status]
        ELSE IF shouldRetry
        THEN [kind |-> "retry", error |-> "", status |-> response.status]
        ELSE [kind |-> "thrown",
              error |-> IF response.type = "network" THEN "TypeError" ELSE "APIError",
              status |-> response.status]

\* error.message of the APIError of a response without a detail.
httpErrorMessage(status) == "HTTP error! status: " \o ToString(status)

showError(message) == [kind |-> "error", text |-> message]
showSuccess(message) == [kind |-> "success", text |-> message]

\* The keys of this.elements.
Elements ==
    { "monthViewBtn", "weekViewBtn", "prevBtn", "nextBtn", "todayBtn",
      "saveEventBtn", "deleteEventBtn", "currentPeriod", "monthlyView",
      "weeklyView", "monthlyCalendarBody", "weeklyCalendarBody", "eventModal",
      "eventForm", "eventId", "eventTitle", "eventDate", "eventStartTime",
      "eventEndTime", "eventDescription", "eventColor", "eventModalLabel" }

toUpperCase(c) ==
    CASE c = "t" -> "T" [] c = "d" -> "D" [] c = "s" -> "S" [] c = "e" -> "E"
      [] c = "c" -> "C" [] OTHER -> c

\* The key without the capital: `event${error.field}`
elementKeyLowerCase(field) == "event" \o field

\* `event${error.field.charAt(0).toUpperCase() + error.field.slice(1)}`
elementKey(field) ==
    "event" \o toUpperCase(charAt(field, 1)) \o SubSeq(field, 2, Len(field))

\* The message loadEvents shows for a failed GET /events.
loadErrorMessage(r) ==
    IF r.error = "APIError"
    THEN IF r.status = 404
         THEN "Events not found. Please check your server configuration."
         ELSE IF r.status >= 500 THEN "Server error. Please try again later."
         ELSE "Failed to load events: " \o httpErrorMessage(r.status)
    ELSE "Unable to connect to server. Please check your connection and ensure the backend is running."

\* The message saveEvent shows when updateExistingEvent / createNewEvent throws.
saveErrorMessage(r) ==
    IF r.error = "APIError"
    THEN "Failed to save event: " \o httpErrorMessage(r.status)
    ELSE "An unexpected error occurred. Please try again."

savedMessage(data) ==
    IF data.id # "" THEN "Event updated successfully" ELSE "Event created successfully"

\* deleteEvent's catch block without the branch for status 404.
deleteErrorMessageGeneric(r) == "Failed to delete event. Please try again."

\* The message deleteEvent shows when the DELETE request throws.
deleteErrorMessage(r) ==
    IF r.error = "APIError" /\ r.status = 404
    THEN "Event not found. It may have already been deleted."
    ELSE "Failed to delete event. Please try again."

\* The request a suspended saveEvent or deleteEvent call is waiting for.
methodOf(call) ==
    IF call.stage = "load" THEN "GET"
    ELSE IF call.op = "delete" THEN "DELETE"
    ELSE IF call.data.id # "" THEN "PUT" ELSE "POST"

\* Bodies the server may answer GET /events with.
ListReplies == { StoredEvents, SubSeq(StoredEvents, 1, 2) }

RemoveAt(seq, i) == SubSeq(seq, 1, i - 1) \o SubSeq(seq, i + 1, Len(seq))

\* No answer of the storage service is on its way to the call.
NoReply == [status |-> 0, body |-> <<>>]

\* A call as it waits for the first attempt of its POST, PUT or DELETE.
newCall(op, data) ==
    [op |-> op, data |-> data, stage |-> "write", retries |-> MAX_RETRIES,
     attempts |-> 1, reply |-> NoReply]

\* A saveEvent whose try block runs on whatever validateEventData found.
tryBlockContinuesAlways(result) == TRUE

\* Whether the try block of saveEvent runs on after validateEventData: a
\* ValidationError thrown there leaves the block for the catch clause.
tryBlockContinues(result) == result.ok

\* saveEvent() up to its first await, with at most `limit` calls in flight:
\* the form is read and validated; a ValidationError is shown and the field
\* focused, otherwise the POST or PUT is sent.
SaveEventWithin(limit) ==
    LET eventData == form
        result == validateEventData(eventData)
    IN  /\ variant = "api"
        /\ modalOpen
        /\ Len(calls) < limit
        /\ outcome' = result
        /\ form' = dataAfterValidate(eventData)
        /\ lastOp' = [op |-> "saveEvent", arg |-> ""]
        /\ IF tryBlockContinues(result)
           THEN /\ calls' = Append(calls, newCall("save", eventData))
                /\ UNCHANGED <<toast, focused>>
           ELSE /\ toast' = <<showError(result.message)>>
                /\ focused' = IF result.field # "" /\ elementKey(result.field) \in Elements
                              THEN elementKey(result.field) ELSE focused
                /\ UNCHANGED calls
        /\ UNCHANGED <<variant, tzOffset, currentDate, currentView, events, today,
                       bucketsOut, engine, fetchResult, modalOpen, serverVars>>

SaveEvent == SaveEventWithin(MaxInFlight)

\* The fetch awaited by call i settles with `response` (a body out of `bodies`
\* if it is the answer to GET /events), and the call runs on to its next await
\* or to its end.
Settle(i, response, bodies) ==
    LET call == calls[i]
        r == fetchWithRetry(call.retries, response)
        done == IF call.op = "delete" THEN "Event deleted successfully"
                ELSE savedMessage(call.data)
    IN  /\ fetchResult' = [call |-> i, response |-> response, kind |-> r.kind,
                           error |-> r.error, status |-> r.status,
                           attempts |-> call.attempts]
        /\ lastOp' = [op |-> "fetchSettles", arg |-> methodOf(call)]
        /\ IF r.kind = "retry"
           THEN /\ calls' = [calls EXCEPT ![i].retries = @ - 1, ![i].attempts = @ + 1,
                                          ![i].reply = NoReply]
                /\ UNCHANGED <<events, today, modalOpen, toast>>
           ELSE IF call.stage = "write" /\ r.kind = "returned"
           THEN \* loadEvents() sends GET /events
                /\ calls' = [calls EXCEPT ![i].stage = "load",
                                          ![i].retries = MAX_RETRIES,
                                          ![i].attempts = 1,
                                          ![i].reply = NoReply]
                /\ UNCHANGED <<events, today, modalOpen, toast>>
           ELSE IF call.stage = "write"
           THEN \* the catch block of saveEvent / deleteEvent
                /\ calls' = RemoveAt(calls, i)
                /\ toast' = <<showError(IF call.op = "delete" THEN deleteErrorMessage(r)
                                        ELSE saveErrorMessage(r))>>
                /\ UNCHANGED <<events, today, modalOpen>>
           ELSE \* loadEvents() ends, then hide, refreshCurrentView, showSuccess
                /\ calls' = RemoveAt(calls, i)
                /\ IF r.kind = "returned"
                   THEN /\ events' \in bodies
                        /\ toast' = <<showSuccess(done)>>
                   ELSE /\ UNCHANGED events
                        /\ toast' = <<showError(loadErrorMessage(r)), showSuccess(done)>>
                /\ modalOpen' = FALSE
                /\ today' \in ClockFrom(today)
        /\ UNCHANGED <<variant, tzOffset, currentDate, currentView, bucketsOut,
                       engine, form, outcome, focused>>

\* The fetch awaited by call i settles with any response.
FetchSettles(i, response) ==
    /\ Settle(i, response, ListReplies)
    /\ UNCHANGED serverVars

\* The values of the form: a valid draft with one field changed.
BaseDraft ==
    [id |-> "", title |-> " Standup ", date |-> "2025-11-30", startTime |-> "09:00",
     endTime |-> "09:01", description |-> "", color |-> "#0ea5e9"]

SaveDrafts ==
    { [d EXCEPT !.id = i] :
        i \in {"", "1"},
        d \in { [BaseDraft EXCEPT !.title = t] : t \in DraftTitles }
                \cup { [BaseDraft EXCEPT !.date = x] : x \in DraftDates }
                \cup { [BaseDraft EXCEPT !.startTime = x] : x \in DraftStartTimes }
                \cup { [BaseDraft EXCEPT !.endTime = x] : x \in DraftEndTimes }
                \cup { [BaseDraft EXCEPT !.description = x] : x \in DraftDescriptions }
                \cup { [BaseDraft EXCEPT !.color = x] : x \in DraftColors } }

InitSave ==
    /\ variant = "api"
    /\ tzOffset = 0
    /\ today = NewDate(BaseYear + 1, 1, 29, 9)
    /\ currentDate = today
    /\ currentView = "month"
    /\ events = StoredEvents
    /\ lastOp = [op |-> "init", arg |-> ""]
    /\ bucketsOut = <<>>
    /\ engine \in Engines
    /\ form \in SaveDrafts
    /\ outcome = NotValidated
    /\ calls = <<>>
    /\ fetchResult = NoFetch
    /\ modalOpen = TRUE
    /\ toast = NoToast
    /\ focused = ""
    /\ server = events
    /\ nextId = 1

NextSave ==
    \/ SaveEvent
    \/ \E i \in 1..Len(calls), response \in Responses : FetchSettles(i, response)

SpecSave == InitSave /\ [][NextSave]_vars

----------------------------------------------------------------------------
(* saveEvent and deleteEvent against the storage service *)

\* deleteEvent() up to its first await, with at most `limit` calls in flight.
DeleteEventWithin(limit) ==
    LET eventId == form.id
    IN  /\ variant = "api"
        /\ modalOpen
        /\ Len(calls) < limit
        /\ lastOp' = [op |-> "deleteEvent", arg |-> eventId]
        /\ IF eventId = ""
           THEN /\ toast' = <<showError("No event selected for deletion")>>
                /\ UNCHANGED calls
           ELSE \E confirmed \in BOOLEAN :
                  /\ calls' = IF confirmed THEN Append(calls, newCall("delete", form))
                              ELSE calls
                  /\ UNCHANGED toast
        /\ UNCHANGED <<variant, tzOffset, currentDate, currentView, events, today,
                       bucketsOut, engine, form, outcome, fetchResult, modalOpen,
                       focused, serverVars>>

DeleteEvent == DeleteEventWithin(MaxPending)

\* The positions of the stored events with a given id.
positionsOf(stored, id) == { k \in 1..Len(stored) : stored[k].id = id }

\* createEvent(draft): the storage assigns the id.
serverCreate(stored, id, draft) == Append(stored, [draft EXCEPT !.id = id])

\* updateEvent(id, draft): full replace of the event with that id.
serverUpdate(stored, id, draft) ==
    [k \in 1..Len(stored) |-> IF stored[k].id = id THEN draft ELSE stored[k]]

\* deleteEvent(id)
serverDelete(stored, id) == SelectSeq(stored, LAMBDA e : e.id # id)

\* The storage service handles the request call i is waiting for and puts its
\* answer on the way.
ServerHandles(i) ==
    LET call == calls[i]
        method == methodOf(call)
        known == positionsOf(server, call.data.id) # {}
    IN  /\ call.reply = NoReply
        /\ lastOp' = [op |-> "serverHandles", arg |-> method]
        /\ CASE method = "GET" ->
                  /\ calls' = [calls EXCEPT ![i].reply = [status |-> 200, body |-> server]]
                  /\ UNCHANGED serverVars
             [] method = "POST" ->
                  /\ Len(server) < MaxStored
                  /\ server' = serverCreate(server, ToString(nextId), call.data)
                  /\ nextId' = nextId + 1
                  /\ calls' = [calls EXCEPT ![i].reply = [status |-> 201, body |-> <<>>]]
             [] method = "PUT" ->
                  /\ server' = IF known THEN serverUpdate(server, call.data.id, call.data)
                               ELSE server
                  /\ calls' = [calls EXCEPT ![i].reply =
                                  [status |-> IF known THEN 200 ELSE 404, body |-> <<>>]]
                  /\ UNCHANGED nextId
             [] method = "DELETE" ->
                  /\ server' = serverDelete(server, call.data.id)
                  /\ calls' = [calls EXCEPT ![i].reply =
                                  [status |-> IF known THEN 200 ELSE 404, body |-> <<>>]]
                  /\ UNCHANGED nextId
        /\ UNCHANGED <<variant, tzOffset, currentDate, currentView, events, today,
                       bucketsOut, engine, form, outcome, fetchResult, modalOpen,
                       toast, focused>>

\* What may come back to call i: the answer of the service, or a failure of
\* the network or of the server in its place.
ArrivingResponses(call) ==
    { [type |-> "network", status |-> 0], [type |-> "http", status |-> 500] }
      \cup (IF call.reply = NoReply THEN {}
            ELSE { [type |-> "http", status |-> call.reply.status] })

\* The fetch awaited by call i settles with a response that arrived.
ResponseArrives(i, response) ==
    /\ response \in ArrivingResponses(calls[i])
    /\ Settle(i, response, {calls[i].reply.body})
    /\ UNCHANGED serverVars

ServerToday == NewDate(BaseYear + 1, 1, 29, 9)
ServerDate(day) == formatDateString(ServerToday.year, ServerToday.month, day)

\* The collection in storage when the page is loaded.
ServerEvents ==
    << [id |-> "1", title |-> "Review", date |-> ServerDate(10), startTime |-> "10:00",
        endTime |-> "10:30", description |-> "", color |-> "#10B981"],
       [id |-> "2", title |-> "Lunch", date |-> ServerDate(10), startTime |-> "09:00",
        endTime |-> "09:30", description |-> "", color |-> "#EF4444"] >>

\* The form: a new event, an edit of the stored event 1, an edit of an event
\* the storage does not hold.
NewDraft ==
    [id |-> "", title |-> "Standup", date |-> ServerDate(10), startTime |-> "09:00",
     endTime |-> "09:15", description |-> "", color |-> "#0EA5E9"]
ServerDrafts ==
    { NewDraft,
      [NewDraft EXCEPT !.id = "1", !.date = ServerDate(11)],
      [NewDraft EXCEPT !.id = "9"] }

InitServer ==
    /\ variant = "api"
    /\ tzOffset = 0
    /\ today = ServerToday
    /\ currentDate = today
    /\ currentView \in {"month", "week"}
    /\ events = ServerEvents
    /\ lastOp = [op |-> "init", arg |-> ""]
    /\ bucketsOut = <<>>
    /\ engine = "strict"
    /\ form \in ServerDrafts
    /\ outcome = NotValidated
    /\ calls = <<>>
    /\ fetchResult = NoFetch
    /\ modalOpen = TRUE
    /\ toast = NoToast
    /\ focused = ""
    /\ server = events
    /\ nextId = Len(server) + 1

NextServer ==
    \/ SaveEventWithin(MaxPending)
    \/ DeleteEvent
    \/ \E i \in 1..Len(calls) : ServerHandles(i)
    \/ \E i \in 1..Len(calls), response \in Responses : ResponseArrives(i, response)

SpecServer == InitServer /\ [][NextServer]_vars

\* The answer of the service comes back to call i.
ReplyArrives(i) ==
    /\ calls[i].reply # NoReply
    /\ ResponseArrives(i, [type |-> "http", status |-> calls[i].reply.status])

\* The same page with the save and delete buttons pressed again while earlier
\* calls are still waiting for their answers, on a network that delivers
\* every answer, in any order.
NextRace ==
    \/ SaveEventWithin(MaxRacing)
    \/ DeleteEventWithin(MaxRacing)
    \/ \E i \in 1..Len(calls) : ServerHandles(i)
    \/ \E i \in 1..Len(calls) : ReplyArrives(i)

SpecRace == InitServer /\ [][NextRace]_vars

----------------------------------------------------------------------------
(* The localStorage-backed variant: its form and its collection *)

\* validateEventData(data): title && date && startTime && endTime
localValidateEventData(data) ==
    data.title # "" /\ data.date # "" /\ data.startTime # "" /\ data.endTime # ""

\* this.events.findIndex(e => e.id === id), 0 standing for -1.
findIndex(evts, id) ==
    IF positionsOf(evts, id) = {} THEN 0
    ELSE CHOOSE k \in positionsOf(evts, id) : \A j \in positionsOf(evts, id) : k <= j

\* updateExistingEvent(eventData)
localUpdateExistingEvent(evts, eventData) ==
    LET index == findIndex(evts, eventData.id)
    IN  IF index # 0 THEN [evts EXCEPT ![index] = eventData] ELSE evts

\* createNewEvent(eventData), Date.now() returning `now`.
localCreateNewEvent(evts, eventData, now) ==
    Append(evts, [eventData EXCEPT !.id = ToString(now)])

\* The values Date.now() may return after it returned `last`.
NowFrom(last) == last..MaxMillis

\* openEventModal(date, hour), hour = -1 standing for null.
LocalOpenEventModal(date, hour) ==
    /\ variant = "local"
    /\ form' = IF hour = -1 THEN [EmptyForm EXCEPT !.date = date]
                ELSE [EmptyForm EXCEPT !.date = date,
                                       !.startTime = padStart(ToString(hour)) \o ":00",
                                       !.endTime = padStart(ToString(hour + 1)) \o ":00"]
    /\ modalOpen' = TRUE
    /\ lastOp' = [op |-> "openEventModal", arg |-> date]
    /\ UNCHANGED <<variant, tzOffset, currentDate, currentView, events, today,
                   bucketsOut, engine, outcome, calls, fetchResult, toast, focused,
                   serverVars>>

\* editEvent(eventId)
LocalEditEvent(eventId) ==
    LET index == findIndex(events, eventId)
    IN  /\ variant = "local"
        /\ lastOp' = [op |-> "editEvent", arg |-> eventId]
        /\ IF index = 0
           THEN UNCHANGED <<form, modalOpen>>
           ELSE /\ form' = events[index]
                /\ modalOpen' = TRUE
        /\ UNCHANGED <<variant, tzOffset, currentDate, currentView, events, today,
                       bucketsOut, engine, outcome, calls, fetchResult, toast, focused,
                       serverVars>>

\* The user fills in the form shown in the modal.
LocalFillForm(draft) ==
    /\ variant = "local"
    /\ modalOpen
    /\ form' = [draft EXCEPT !.id = form.id]
    /\ lastOp' = [op |-> "fillForm", arg |-> draft.title]
    /\ UNCHANGED <<variant, tzOffset, currentDate, currentView, events, today,
                   bucketsOut, engine, outcome, calls, fetchResult, modalOpen, toast,
                   focused, serverVars>>

\* saveEvent(): the click listener of saveEventBtn
LocalSaveEvent ==
    LET eventData == form
    IN  /\ variant = "local"
        /\ IF ~localValidateEventData(eventData)
           THEN /\ toast' = <<[kind |-> "alert", text |-> "Please fill in all required fields"]>>
                /\ lastOp' = [op |-> "saveEvent", arg |-> "invalid"]
                /\ UNCHANGED <<events, modalOpen, serverVars>>
           ELSE /\ IF eventData.id # ""
                   THEN /\ events' = localUpdateExistingEvent(events, eventData)
                        /\ lastOp' = [op |-> "saveEvent", arg |-> "updateExistingEvent"]
                        /\ UNCHANGED nextId
                   ELSE /\ Len(events) < MaxEvents
                        /\ \E now \in NowFrom(nextId) :
                              /\ events' = localCreateNewEvent(events, eventData, now)
                              /\ nextId' = now
                        /\ lastOp' = [op |-> "saveEvent", arg |-> "createNewEvent"]
                /\ server' = events'
                /\ modalOpen' = FALSE
                /\ toast' = NoToast
        /\ UNCHANGED <<variant, tzOffset, currentDate, currentView, today, bucketsOut,
                       engine, form, outcome, calls, fetchResult, focused>>

\* deleteEvent(): the click listener of deleteEventBtn
LocalDeleteEvent ==
    LET eventId == form.id
    IN  /\ variant = "local"
        /\ lastOp' = [op |-> "deleteEvent", arg |-> eventId]
        /\ \E confirmed \in BOOLEAN :
              IF eventId # "" /\ confirmed
              THEN /\ events' = SelectSeq(events, LAMBDA e : e.id # eventId)
                   /\ server' = events'
                   /\ modalOpen' = FALSE
              ELSE UNCHANGED <<events, server, modalOpen>>
        /\ UNCHANGED <<variant, tzOffset, currentDate, currentView, today, bucketsOut,
                       engine, form, outcome, calls, fetchResult, toast, focused, nextId>>

\* What the user types into the form.
LocalDrafts ==
    { [NewDraft EXCEPT !.title = "Standup"],
      [NewDraft EXCEPT !.title = "Lunch", !.date = ServerDate(11), !.startTime = "12:00",
                       !.endTime = "12:30", !.color = "#EF4444"] }

\* The arguments of openEventModal: a day cell, or an hour slot of the week.
OpenHours == {-1, 9}

InitLocal ==
    /\ variant = "local"
    /\ tzOffset = 0
    /\ today = ServerToday
    /\ currentDate = today
    /\ currentView = "month"
    /\ events = <<>>
    /\ lastOp = [op |-> "init", arg |-> ""]
    /\ bucketsOut = <<>>
    /\ engine = "lenient"
    /\ form = EmptyForm
    /\ outcome = NotValidated
    /\ calls = <<>>
    /\ fetchResult = NoFetch
    /\ modalOpen = FALSE
    /\ toast = NoToast
    /\ focused = ""
    /\ server = events
    /\ nextId = 1

NextLocal ==
    \/ \E hour \in OpenHours : LocalOpenEventModal(ServerDate(10), hour)
    \/ \E k \in 1..Len(events) : LocalEditEvent(events[k].id)
    \/ \E draft \in LocalDrafts : LocalFillForm(draft)
    \/ LocalSaveEvent
    \/ LocalDeleteEvent

SpecLocal == InitLocal /\ [][NextLocal]_vars

----------------------------------------------------------------------------
(* The Gregorian calendar, as the reference the claims are stated against *)

IsLeapYear(y) == y % 4 = 0 /\ (y % 100 # 0 \/ y % 400 = 0)

GregorianDaysInMonth(y, m) ==
    IF m = 1 THEN (IF IsLeapYear(y) THEN 29 ELSE 28)
    ELSE IF m \in {3, 5, 8, 10} THEN 30 ELSE 31

\* Sunday-based weekday of day 1 of the viewed month.
FirstWeekday == getDay([year |-> currentDate.year, month |-> currentDate.month,
                        date |-> 1, hours |-> 0])

ViewedDaysInMonth == GregorianDaysInMonth(currentDate.year, currentDate.month)

\* The month before and the month after the viewed month.
MonthBefore ==
    IF currentDate.month = 0 THEN [year |-> currentDate.year - 1, month |-> 11]
    ELSE [year |-> currentDate.year, month |-> currentDate.month - 1]

MonthAfter ==
    IF currentDate.month = 11 THEN [year |-> currentDate.year + 1, month |-> 0]
    ELSE [year |-> currentDate.year, month |-> currentDate.month + 1]

----------------------------------------------------------------------------
(* Claims about the month grid *)

C2_SpilloverCells ==
    currentView = "month" =>
        LET cs == cells
        IN  \A i \in 0..(Len(cs) - 1) :
              /\ i < FirstWeekday =>
                    LET day == GregorianDaysInMonth(MonthBefore.year, MonthBefore.month)
                                 - (FirstWeekday - i - 1)
                    IN  /\ cs[i + 1].type = "prev"
                        /\ cs[i + 1].day = day
                        /\ cs[i + 1].dateStr =
                              formatDateString(MonthBefore.year, MonthBefore.month, day)
              /\ i >= FirstWeekday + ViewedDaysInMonth =>
                    LET day == i - FirstWeekday - ViewedDaysInMonth + 1
                    IN  /\ cs[i + 1].type = "next"
                        /\ cs[i + 1].day = day
                        /\ cs[i + 1].dateStr =
                              formatDateString(MonthAfter.year, MonthAfter.month, day)

\* A rendered January whose first row holds days of the previous December,
\* and whose last row holds days of February.
C2_Witness ==
    /\ currentView = "month"
    /\ lastOp.op = "navigate"
    /\ currentDate.month = 0
    /\ FirstWeekday > 0
    /\ Len(cells) > FirstWeekday + ViewedDaysInMonth

\* C3: in every rendered month grid every cell, of whatever membership, is
\* marked as today if and only if its date is the local day of the rendering.
C3_TodayMarkedIffToday ==
    currentView = "month" =>
        LET cs == cells
        IN  \A i \in 1..Len(cs) :
               (cs[i].classes = "today") <=>
                   (cs[i].dateStr = formatDateString(today.year, today.month, today.date))

----------------------------------------------------------------------------
(* Claims about the week view *)

\* Day count of the calendar day of a Date, and the key of a day count.
DayNumber(d) == DaysFromCivil(d.year, d.month, d.date)

LocalDayKey(z) ==
    LET c == CivilFromDays(z) IN formatDateString(c.year, c.month, c.date)

\* C4: for every date d, getWeekStart(d) is a Sunday, on or before d, at most
\* 6 days before d, and at local midnight (its time of day is removed).
C4_WeekStartSundayMidnight ==
    currentView = "week" =>
        LET ws == getWeekStart(currentDate)
        IN  /\ getDay(ws) = 0
            /\ DayNumber(ws) <= DayNumber(currentDate)
            /\ DayNumber(currentDate) - DayNumber(ws) <= 6
            /\ ws.hours = 0

\* C5: for every reference date and time-zone offset the week view has exactly
\* 7 cells whose keys are the local calendar days weekStart .. weekStart + 6 in
\* YYYY-MM-DD form, so that an event is shown in a cell if and only if its date
\* is that cell's local calendar day.
C5_WeekCellsAreLocalDays ==
    currentView = "week" =>
        LET cs      == cells
            sunday  == DayNumber(currentDate) - getDay(currentDate)
        IN  /\ Len(cs) = 7
            /\ \A k \in 1..Len(cs) :
                  /\ cs[k].dateStr = LocalDayKey(sunday + k - 1)
                  /\ \A i \in 1..Len(events) :
                        (\E j \in 1..Len(cs[k].events) : cs[k].events[j] = events[i].id)
                            <=> (events[i].date = LocalDayKey(sunday + k - 1))

----------------------------------------------------------------------------
(* Claims about navigation *)

Min(a, b) == IF a <= b THEN a ELSE b

\* C6: in month view navigate('next') / navigate('prev') moves the viewed
\* (year, month) to exactly the following / preceding calendar month, and the
\* day of month is clamped to the last day of a shorter target month.
C6_MonthNavigationClamps ==
    [][ (currentView = "month" /\ lastOp'.op = "navigate") =>
            LET target == IF lastOp'.arg = "next" THEN MonthAfter ELSE MonthBefore
            IN  /\ currentDate'.year = target.year
                /\ currentDate'.month = target.month
                /\ currentDate'.date =
                      Min(currentDate.date,
                          GregorianDaysInMonth(target.year, target.month)) ]_vars

\* C7: in month view, from any day of December of year Y navigate('next')
\* yields a date in January of Y + 1, and from any day of January of year Y
\* navigate('prev') yields a date in December of Y - 1.
C7_YearRollover ==
    [][ (currentView = "month" /\ lastOp'.op = "navigate") =>
            /\ (lastOp'.arg = "next" /\ currentDate.month = 11) =>
                  (currentDate'.month = 0 /\ currentDate'.year = currentDate.year + 1)
            /\ (lastOp'.arg = "prev" /\ currentDate.month = 0) =>
                  (currentDate'.month = 11 /\ currentDate'.year = currentDate.year - 1)
      ]_vars

\* The month view just after navigate('next') has left a December.
C7_Witness ==
    /\ currentView = "month"
    /\ lastOp = [op |-> "navigate", arg |-> "next"]
    /\ currentDate.month = 0
    /\ currentDate.year = BaseYear + 1

\* C8: in week view navigate('next') / navigate('prev') moves the reference
\* date by exactly 7 calendar days forward / back (the time of day kept), the
\* displayed week start moves by exactly 7 days as well, and the opposite
\* navigation from the new date leads back to the original reference date.
C8_WeekNavigationSevenDays ==
    [][ (currentView = "week" /\ lastOp'.op = "navigate") =>
            LET delta == IF lastOp'.arg = "next" THEN 7 ELSE -7
            IN  /\ DayNumber(currentDate') = DayNumber(currentDate) + delta
                /\ currentDate'.hours = currentDate.hours
                /\ DayNumber(getWeekStart(currentDate'))
                      = DayNumber(getWeekStart(currentDate)) + delta
                /\ setDate(currentDate', currentDate'.date - delta) = currentDate
      ]_vars

\* The week view just after navigate('next') has crossed into a new year.
C8_Witness ==
    /\ currentView = "week"
    /\ lastOp = [op |-> "navigate", arg |-> "next"]
    /\ currentDate.month = 0
    /\ currentDate.date <= 7
    /\ currentDate.year = BaseYear + 1

----------------------------------------------------------------------------
(* Claims about groupEventsByDate *)

\* Minutes since midnight of the start times in use.
MinutesOf(t) ==
    CASE t = "09:00" -> 540 [] t = "09:30" -> 570 [] t = "10:00" -> 600
      [] t = "08:59" -> 539 [] t = "09:01" -> 541 [] t = "09:60" -> 600
      [] t = "24:00" -> 1440 [] t = "25:00" -> 1500

\* Number of events held by the first n entries.
RECURSIVE CountIn(_, _)
CountIn(grouped, n) ==
    IF n = 0 THEN 0 ELSE CountIn(grouped, n - 1) + Len(grouped[n].list)

\* C9: groupEventsByDate partitions the collection by exact equality of the
\* date: every event is in exactly one bucket, the one keyed by its own date;
\* none is dropped or duplicated; no bucket is empty; and there are as many
\* buckets as distinct dates.
C9_GroupingPartitions ==
    lastOp.op = "groupEventsByDate" =>
        LET g == bucketsOut
        IN  /\ \A i \in 1..Len(events) :
                  \E b \in 1..Len(g) :
                      /\ g[b].date = events[i].date
                      /\ \E j \in 1..Len(g[b].list) : g[b].list[j] = events[i]
                      /\ \A c \in 1..Len(g) : \A k \in 1..Len(g[c].list) :
                            g[c].list[k] = events[i] => c = b
            /\ \A b \in 1..Len(g) : \A j, k \in 1..Len(g[b].list) :
                  g[b].list[j] = g[b].list[k] => j = k
            /\ CountIn(g, Len(g)) = Len(events)
            /\ \A b \in 1..Len(g) : Len(g[b].list) > 0
            /\ \A b, c \in 1..Len(g) : g[b].date = g[c].date => b = c
            /\ Len(g) = Cardinality({ events[i].date : i \in 1..Len(events) })

\* Three events on two dates have been grouped into two buckets.
C9_Witness ==
    /\ lastOp.op = "groupEventsByDate"
    /\ Len(events) = 3
    /\ events[1].date = events[3].date
    /\ events[1].date # events[2].date
    /\ Len(bucketsOut) = 2

\* C10: within every bucket the events are in ascending order of startTime in
\* minutes since midnight, and events with equal startTime keep their order of
\* the input collection; starts [10:00, 09:00 (a), 09:00 (b)] on one date give
\* [09:00 (a), 09:00 (b), 10:00].
C10_BucketsSortedStable ==
    lastOp.op = "groupEventsByDate" =>
        LET g == bucketsOut
        IN  /\ \A b \in 1..Len(g) : \A j, k \in 1..Len(g[b].list) :
                  j < k =>
                      /\ MinutesOf(g[b].list[j].startTime) <= MinutesOf(g[b].list[k].startTime)
                      /\ MinutesOf(g[b].list[j].startTime) = MinutesOf(g[b].list[k].startTime)
                            => g[b].list[j].id < g[b].list[k].id
            /\ ( /\ Len(events) = 3
                 /\ events[1].date = events[2].date
                 /\ events[2].date = events[3].date
                 /\ events[1].startTime = "10:00"
                 /\ events[2].startTime = "09:00"
                 /\ events[3].startTime = "09:00" )
               => (Len(g) = 1 /\ Ids(g[1].list) = <<2, 3, 1>>)

\* The collection [10:00, 09:00 (a), 09:00 (b)] on one date has been grouped.
C10_Witness ==
    /\ lastOp.op = "groupEventsByDate"
    /\ Len(events) = 3
    /\ events[1].date = events[2].date
    /\ events[2].date = events[3].date
    /\ events[1].startTime = "10:00"
    /\ events[2].startTime = "09:00"
    /\ events[3].startTime = "09:00"

----------------------------------------------------------------------------
(* Claims about validateEventData *)

\* The check of the validator that raises a given message, numbered in the
\* order title-required, title-length, date-format, date-is-real-day,
\* time-format, end-after-start, description-length, color-format.
CheckOfMessage(message) ==
    CASE message = "Event title is required" -> 1
      [] message = "Event title must be 100 characters or less" -> 2
      [] message = "Event date is required" -> 3
      [] message = "Invalid date format. Please use YYYY-MM-DD" -> 3
      [] message = "Invalid date" -> 4
      [] message = "Start time is required" -> 5
      [] message = "End time is required" -> 5
      [] message = "Invalid start time format. Please use HH:MM" -> 5
      [] message = "Invalid end time format. Please use HH:MM" -> 5
      [] message = "End time must be after start time" -> 6
      [] message = "Description must be 500 characters or less" -> 7
      [] message = "Invalid color format. Please use hex color code" -> 8
      [] OTHER -> 0

FieldsOfCheck(k) ==
    CASE k \in {1, 2} -> {"title"}
      [] k \in {3, 4} -> {"date"}
      [] k = 5 -> {"startTime", "endTime"}
      [] k = 6 -> {"endTime"}
      [] k = 7 -> {"description"}
      [] k = 8 -> {"color"}

TimesWellFormed(d) == timeRegexTest(d.startTime) /\ timeRegexTest(d.endTime)

\* Whether check k, taken on its own, fails on draft d.
CheckFails(k, d) ==
    CASE k = 1 -> Len(trim(d.title)) = 0
      [] k = 2 -> Len(trim(d.title)) > MaxTitleLength
      [] k = 3 -> ~dateRegexTest(d.date)
      [] k = 4 -> dateRegexTest(d.date) /\ ~validateDate(d).ok
      [] k = 5 -> ~TimesWellFormed(d)
      [] k = 6 -> TimesWellFormed(d) /\ ~validateTimeLogic(d).ok
      [] k = 7 -> ~validateDescription(d).ok
      [] k = 8 -> ~validateColor(d).ok

FailingChecks(d) == { k \in 1..8 : CheckFails(k, d) }

Validated == lastOp.op = "validateEventData"

\* C11: validateEventData reports the earliest failing check only: the error
\* returned belongs to the first check, in the order title-required,
\* title-length, date-format, date-is-real-day, time-format, end-after-start,
\* description-length, color-format, that fails on the draft, it names a field
\* of that check, and the draft is accepted iff no check fails.
C11_FirstFailureWins ==
    Validated =>
        LET failing == FailingChecks(form)
        IN  IF failing = {}
            THEN outcome.ok
            ELSE LET first == CHOOSE k \in failing : \A j \in failing : k <= j
                 IN  /\ ~outcome.ok
                     /\ CheckOfMessage(outcome.message) = first
                     /\ outcome.field \in FieldsOfCheck(first)

\* A draft failing the title, date, time, description and colour checks at once
\* is rejected for its title.
C11_Witness ==
    /\ Validated
    /\ {1, 3, 5, 7, 8} \subseteq FailingChecks(form)
    /\ outcome = ValidationError("Event title is required", "title")

\* Checks 1..k of the validator all pass on draft d.
PassesThrough(k, d) == \A j \in 1..k : ~CheckFails(j, d)

\* A time of day HH:MM with hours 00..23 and minutes 00..59.
IsClockTime(t) ==
    /\ timeRegexTest(t)
    /\ Number(SubSeq(t, 1, 2)) <= 23
    /\ Number(SubSeq(t, 4, 5)) <= 59

\* No check other than those in ks fails on draft d.
OnlyFails(ks, d) == FailingChecks(d) \subseteq ks

\* A string YYYY-MM-DD that names a day of the Gregorian calendar.
IsRealDay(s) ==
    LET y == Number(SubSeq(s, 1, 4))
        m == Number(SubSeq(s, 6, 7))
        d == Number(SubSeq(s, 9, 10))
    IN  /\ m \in 1..12
        /\ d >= 1
        /\ d <= GregorianDaysInMonth(y, m - 1)

\* C12: a startTime or endTime is accepted only if it is HH:MM with hours in
\* 00..23 and minutes in 00..59: on a draft that is otherwise valid (a real
\* day, and no check but the time format failing), any other start or end time
\* is rejected with a format error naming such a field.
C12_TimesAreClockTimes ==
    (Validated /\ OnlyFails({5}, form) /\ IsRealDay(form.date)) =>
        LET bad == { f \in {"startTime", "endTime"} : ~IsClockTime(form[f]) }
        IN  bad # {} =>
                /\ ~outcome.ok
                /\ CheckOfMessage(outcome.message) = 5
                /\ outcome.field \in bad

\* C13: a date of the shape YYYY-MM-DD is accepted only if it is a real
\* calendar day: on a draft that is otherwise valid (clock times, and no check
\* but the date's failing), every other string of that shape is rejected with
\* an error naming the field date.
C13_DateIsRealDay ==
    (Validated /\ OnlyFails({4}, form) /\ dateRegexTest(form.date)
       /\ IsClockTime(form.startTime) /\ IsClockTime(form.endTime)
       /\ ~IsRealDay(form.date)) =>
        (~outcome.ok /\ outcome.field = "date")

\* C14: on a draft whose earlier checks pass (so both times have the shape
\* HH:MM), the range check passes iff endTime is strictly later than startTime
\* in minutes since midnight.
C14_EndStrictlyAfterStart ==
    (Validated /\ PassesThrough(5, form)) =>
        ((outcome.ok \/ CheckOfMessage(outcome.message) > 6)
            <=> MinutesOf(form.endTime) > MinutesOf(form.startTime))

\* Equal times are rejected for endTime.
C14_Witness ==
    /\ Validated
    /\ PassesThrough(5, form)
    /\ form.startTime = "09:00"
    /\ form.endTime = "09:00"
    /\ outcome = ValidationError("End time must be after start time", "endTime")

\* The length of s without its leading and trailing white space.
TrimmedLength(s) ==
    LET inked == { i \in 1..Len(s) : charAt(s, i) \notin {" ", "\t"} }
    IN  IF inked = {} THEN 0
        ELSE (CHOOSE i \in inked : \A j \in inked : j <= i)
               - (CHOOSE i \in inked : \A j \in inked : i <= j) + 1

\* The text constraints of the data model on a draft.
TextConstraints(d) ==
    /\ TrimmedLength(d.title) >= 1
    /\ TrimmedLength(d.title) <= 100
    /\ Len(d.description) <= 500
    /\ Len(d.color) = 7
    /\ charAt(d.color, 1) = "#"
    /\ \A i \in 2..7 : IsHexDigit(charAt(d.color, i))

\* C15: every draft that validateEventData accepts has a title that is
\* non-empty after trimming and at most 100 characters long after trimming, a
\* description of at most 500 characters and a colour # followed by six
\* hexadecimal digits of either case; a draft whose date and times pass is
\* accepted exactly if it meets these constraints.
C15_AcceptedDraftsMeetTextConstraints ==
    Validated =>
        /\ outcome.ok => TextConstraints(form)
        /\ OnlyFails({1, 2, 7, 8}, form) => (outcome.ok <=> TextConstraints(form))

\* A title of 100 characters between two blanks, a description of 500
\* characters and a lower-case colour are accepted.
C15_Witness ==
    /\ Validated
    /\ outcome.ok
    /\ Len(form.title) = 102
    /\ TrimmedLength(form.title) = 100
    /\ Len(form.description) = 500
    /\ form.color = "#0ea5e9"

----------------------------------------------------------------------------
(* Claims about saveEvent and fetchWithRetry *)

\* C16: the body saveEvent sends in the create or update request is the
\* normalized event: its title has no leading or trailing white space and its
\* colour is written in one letter case.
C16_AdmittedEventNormalized ==
    \A i \in 1..Len(calls) :
        calls[i].stage = "write" =>
            /\ TrimmedLength(calls[i].data.title) = Len(calls[i].data.title)
            /\ \/ \A k \in 2..7 : charAt(calls[i].data.color, k) \notin {"a", "b", "c", "d", "e", "f"}
               \/ \A k \in 2..7 : charAt(calls[i].data.color, k) \notin {"A", "B", "C", "D", "E", "F"}

\* C18: when validateEventData rejects the draft, saveEvent sends no request
\* (no call is left waiting for a POST, PUT or GET), leaves this.events
\* unchanged, keeps the modal as it is and shows no success message.
C18_RejectedDraftSendsNothing ==
    [][ (lastOp'.op = "saveEvent" /\ ~outcome'.ok) =>
          /\ calls' = calls
          /\ events' = events
          /\ modalOpen' = modalOpen
          /\ \A k \in 1..Len(toast') : toast'[k].kind # "success" ]_vars

\* A draft with a malformed colour was rejected: nothing is in flight, the
\* modal is open and the error is shown.
C18_Witness ==
    /\ lastOp.op = "saveEvent"
    /\ form.color = "blue"
    /\ ~outcome.ok
    /\ calls = <<>>
    /\ modalOpen
    /\ toast = <<showError("Invalid color format. Please use hex color code")>>

\* The form element of each field of a draft.
FormElementOf(field) ==
    CASE field = "title" -> "eventTitle"
      [] field = "date" -> "eventDate"
      [] field = "startTime" -> "eventStartTime"
      [] field = "endTime" -> "eventEndTime"
      [] field = "description" -> "eventDescription"
      [] field = "color" -> "eventColor"

DraftFields == {"title", "date", "startTime", "endTime", "description", "color"}

\* C19: a validation failure names one of the fields title, date, startTime,
\* endTime, description, color, namely the field the failed check examined
\* (the one field of the draft that is not valid; endTime for the
\* end-after-start failure), and saveEvent focuses the form element of that
\* field.
C19_FailureNamesAndFocusesField ==
    (lastOp.op = "saveEvent" /\ ~outcome.ok) =>
        /\ outcome.field \in DraftFields
        /\ IF CheckOfMessage(outcome.message) = 6
           THEN outcome.field = "endTime"
           ELSE form[outcome.field] # BaseDraft[outcome.field]
        /\ focused = FormElementOf(outcome.field)

\* A draft without a start time was rejected and the start time input focused.
C19_Witness ==
    /\ lastOp.op = "saveEvent"
    /\ form.startTime = ""
    /\ outcome = ValidationError("Start time is required", "startTime")
    /\ focused = "eventStartTime"

\* C20: fetchWithRetry tries again only after a network error or a status
\* >= 500; a 4xx response is thrown at once as an APIError with that status,
\* with no attempt added, and a 2xx response is returned at once, with no
\* further attempt of that request.
C20_RetryOnlyTransientFailures ==
    [][ lastOp'.op = "fetchSettles" =>
          LET r == fetchResult'
              before == calls[r.call]
              Retried == /\ Len(calls') = Len(calls)
                         /\ calls'[r.call].stage = before.stage
                         /\ calls'[r.call].attempts = before.attempts + 1
          IN  /\ Retried => (r.response.type = "network" \/ r.response.status >= 500)
              /\ (r.response.type = "http" /\ r.response.status \in 400..499) =>
                    /\ ~Retried
                    /\ r.kind = "thrown"
                    /\ r.error = "APIError"
                    /\ r.status = r.response.status
                    /\ Len(calls') = Len(calls) - 1
              /\ (r.response.type = "http" /\ r.response.status \in 200..299) =>
                    /\ ~Retried
                    /\ r.kind = "returned" ]_vars

\* The first attempt of a POST was answered 404 and the error thrown.
C20_Witness ==
    /\ lastOp = [op |-> "fetchSettles", arg |-> "POST"]
    /\ fetchResult.response = [type |-> "http", status |-> 404]
    /\ fetchResult.kind = "thrown"
    /\ fetchResult.error = "APIError"
    /\ fetchResult.attempts = 1
    /\ calls = <<>>

\* C21: one call of fetchWithRetry makes at most 3 HTTP attempts in total, and
\* a failure of the last attempt is thrown.
C21_AtMostThreeAttempts ==
    /\ \A i \in 1..Len(calls) : calls[i].attempts <= 3
    /\ (fetchResult.attempts >= 3 /\ fetchResult.kind # "returned") =>
           fetchResult.kind = "thrown"

NotFoundResponse == [type |-> "http", status |-> 404]

\* The step in which the DELETE of a deleteEvent call is answered 404.
DeleteAnswered404 ==
    /\ lastOp'.op = "fetchSettles"
    /\ lastOp'.arg = "DELETE"
    /\ fetchResult'.response = NotFoundResponse

\* C22: when the DELETE request is answered 404, deleteEvent does not retry
\* and ends without throwing: it shows the 'not found' error, this.events is
\* left as it was, the modal stays as it was and no success message is shown.
C22_DeleteNotFound ==
    [][DeleteAnswered404 =>
         /\ fetchResult'.kind = "thrown"
         /\ Len(calls') = Len(calls) - 1
         /\ toast' = <<showError("Event not found. It may have already been deleted.")>>
         /\ \A k \in 1..Len(toast') : toast'[k].kind # "success"
         /\ events' = events
         /\ modalOpen' = modalOpen]_vars

\* A DELETE was answered 404 and the 'not found' error is on display.
C22_Witness ==
    /\ lastOp = [op |-> "fetchSettles", arg |-> "DELETE"]
    /\ fetchResult.response = NotFoundResponse
    /\ toast = <<showError("Event not found. It may have already been deleted.")>>
    /\ events = ServerEvents

\* The ids of a collection, in its order.
IdsOf(evts) == [k \in 1..Len(evts) |-> evts[k].id]

NoDuplicateIds(evts) ==
    \A i, j \in 1..Len(evts) : i # j => evts[i].id # evts[j].id

\* C23: in the localStorage-backed Calendar no two events of this.events have
\* the same id after any sequence of creations, updates and deletions, and an
\* update keeps the id and the position of every event.
C23_IdsUniqueAndImmutable ==
    [][/\ NoDuplicateIds(events')
       /\ (lastOp'.op = "saveEvent" /\ lastOp'.arg = "updateExistingEvent")
             => IdsOf(events') = IdsOf(events)]_vars

\* The step is a saveEvent() of the localStorage-backed variant that got past
\* the validation with a draft that carries an id.
LocalSaveWithId ==
    /\ lastOp'.op = "saveEvent"
    /\ lastOp'.arg = "updateExistingEvent"

ReportsFailure(messages) ==
    \E k \in 1..Len(messages) : messages[k].kind \in {"error", "alert"}

\* C24: saving a draft whose id no event of the collection has leaves the
\* collection unchanged and is reported as a failure; saving a draft whose
\* id is present replaces all fields of that event and changes no other.
C24_SaveUnknownIdFails ==
    [][LocalSaveWithId =>
         IF positionsOf(events, form.id) = {}
         THEN /\ events' = events
              /\ ReportsFailure(toast')
         ELSE /\ Len(events') = Len(events)
              /\ \A k \in 1..Len(events) :
                    events'[k] = IF events[k].id = form.id THEN form ELSE events[k]]_vars

\* The event carries the values of the draft (its id apart).
CarriesDraft(event, draft) == [event EXCEPT !.id = draft.id] = draft

Shows(messages, message) == \E k \in 1..Len(messages) : messages[k] = message

\* C25: whenever saveEvent reports 'Event created successfully', the event it
\* created is in this.events and in the bucket of its date, whatever the
\* outcome of the reload.
C25_CreatedEventIsHeld ==
    [][(/\ lastOp'.op = "fetchSettles"
        /\ Shows(toast', showSuccess("Event created successfully")))
         => LET draft == calls[fetchResult'.call].data
            IN  \E k \in 1..Len(events') :
                  /\ CarriesDraft(events'[k], draft)
                  /\ \E j \in 1..Len(bucketOf(groupEventsByDate(events'), draft.date)) :
                        bucketOf(groupEventsByDate(events'), draft.date)[j] = events'[k]]_vars

C27_MonthBadgesInIndexOrder ==
    currentView = "month" =>
        \A i \in 1..Len(cells) : \A j, k \in 1..Len(cells[i].events) :
            j < k =>
                LET a == events[cells[i].events[j]]
                    b == events[cells[i].events[k]]
                IN  \/ MinutesOf(a.startTime) < MinutesOf(b.startTime)
                    \/ /\ MinutesOf(a.startTime) = MinutesOf(b.startTime)
                       /\ a.id < b.id

\* The places (cell, position) at which the visible table shows an event.
PlacesOf(cs, id) ==
    { p \in (1..Len(cs)) \X (1..MaxEvents) :
        p[2] <= Len(cs[p[1]].events) /\ cs[p[1]].events[p[2]] = id }

\* C28: the visible cells are a function of the reference date, the view, the
\* collection and today: refreshing again gives the same cells, no event is
\* shown twice, and every event a cell shows is an event of this.events whose
\* date is the calendar day of that cell.
C28_CellsShowCurrentEvents ==
    LET cs == cells
        sunday == DayNumber(currentDate) - getDay(currentDate)
        dayOf(k) == IF currentView = "week" THEN LocalDayKey(sunday + k - 1)
                    ELSE cs[k].dateStr
    IN  /\ refreshCurrentView(currentView, currentDate, today, events) = cs
        /\ \A i \in 1..Len(events) : Cardinality(PlacesOf(cs, events[i].id)) <= 1
        /\ \A k \in 1..Len(cs) : \A j \in 1..Len(cs[k].events) :
              \E i \in 1..Len(events) :
                  /\ events[i].id = cs[k].events[j]
                  /\ events[i].date = dayOf(k)

\* Day count of the first cell of the month grid: the Sunday on or before
\* day 1 of the viewed month.
FirstCellDay == DaysFromCivil(currentDate.year, currentDate.month, 1) - FirstWeekday

\* Sunday-based weekday of the calendar day with a given day count: day 0,
\* 1970-01-01, was a Thursday.
WeekdayOfDay(z) == (z + 4) % DAYS_IN_WEEK

\* C29: read in row-major order the cells of a month grid are consecutive
\* calendar days, across the month boundaries and across a year boundary;
\* their keys are distinct, column j holds weekday j, and an event whose date
\* is in the displayed range is shown in exactly one cell.
C29_MonthCellsConsecutiveDays ==
    currentView = "month" =>
        LET cs == cells
        IN  /\ \A k \in 1..Len(cs) :
                  /\ cs[k].dateStr = LocalDayKey(FirstCellDay + k - 1)
                  /\ WeekdayOfDay(FirstCellDay + k - 1) = (k - 1) % DAYS_IN_WEEK
            /\ \A k \in 1..Len(cs) : \A m \in (k + 1)..Len(cs) : cs[k].dateStr # cs[m].dateStr
            /\ \A i \in 1..Len(events) :
                  (\E k \in 1..Len(cs) : cs[k].dateStr = events[i].date)
                      => Cardinality({ k \in 1..Len(cs) :
                                         \E j \in 1..Len(cs[k].events) :
                                             cs[k].events[j] = events[i].id }) = 1

\* A rendered January whose first row starts in the December of the year
\* before, with the event of New Year's Eve shown in a cell of that row.
C29_Witness ==
    /\ currentView = "month"
    /\ lastOp.op = "navigate"
    /\ currentDate.month = 0
    /\ currentDate.year = BaseYear + 1
    /\ FirstWeekday > 0
    /\ \E k \in 1..FirstWeekday :
          /\ cells[k].type = "prev"
          /\ cells[k].dateStr = StoredEvents[1].date
          /\ \E j \in 1..Len(cells[k].events) : cells[k].events[j] = 1

\* C30: with several saveEvent and deleteEvent calls in flight and their
\* answers arriving in any order, the answer to an earlier GET /events never
\* replaces the result of a later one, and once the last request has completed
\* with its reload this.events is the collection the service holds.
C30_EventsMatchServer ==
    [][lastOp'.op = "fetchSettles" =>
         /\ events = server => events' = server'
         /\ (calls' = <<>> /\ fetchResult'.kind = "returned") => events' = server']_vars

====
